---- MODULE Spec2Model ----
(***************************************************************************)
(* Model of dolphin_doc_lib/base/table.py: Table (occupancy board, sorted  *)
(* cell sequence, directional navigation) and Cell (back-reference to the  *)
(* owning table).                                                          *)
(*                                                                         *)
(* The Cell objects of a run are the set Cells: for every rectangle of     *)
(* CellRects the caller has constructed Copies cells, written <<r, k>>.    *)
(* Cell.__init__ leaves parent = None.  The copies of one rectangle are    *)
(* indistinguishable until used, so copy k+1 is handed to add_cell only    *)
(* after copy k has been inserted somewhere.  SpareCells are cells that    *)
(* are never handed to add_cell at all.                                    *)
(*                                                                         *)
(* The two tables are interchangeable objects, so Init constructs table 1  *)
(* with the larger (row_num, col_num) of the two.                          *)
(*                                                                         *)
(* Indices stored in the board are 0-based as in the code; the TLA+        *)
(* sequence cells[t] is 1-based, so cells[t][i + 1] is Python _cells[i].   *)
(*                                                                         *)
(* Three specifications share the state and the operators:                 *)
(*   Spec      add_cell, Table.move and Cell.move on two tables, every     *)
(*             call one step;                                              *)
(*   SpecDoc   add_cell, append_paragraph and to_dict on one table, with   *)
(*             the histories of insertions and attachments;                *)
(*   SpecRace  two threads inside add_cell on one table, preempted         *)
(*             between the check, the append and sort, and the rebuild.    *)
(***************************************************************************)
EXTENDS Integers, Sequences, FiniteSets, TLC

\* ---------------------------------------------------------------- bounds
MaxRows == 2
MaxCols == 2
MaxCells == 3
Copies == 2
MaxParas == 2

\* ------------------------------------------------------------- constants
_UNOCCUPIED_CELL == -1

Tables == {1, 2}
None == 0
NoCoord == _UNOCCUPIED_CELL
Direction == {"UP", "DOWN", "LEFT", "RIGHT"}
Paragraphs == 1 .. MaxParas
Threads == {1, 2}

\* Table and Cell fields, and what the last call did.
VARIABLES row_num, col_num, cells, board, occupied_area, parent, ret

\* paragraph.parent, cell._paragraphs, and the record the last call returned
\* if it was to_dict.  History: the successful attachments and, per table,
\* the successful insertions, each in the order they happened.
VARIABLES para_parent, paragraphs, doc, attached, arrivals

\* Two threads calling add_cell on table 1: where each is inside the call,
\* the cell it passed, and whether any step so far was taken while the other
\* thread was inside a call.
VARIABLES pc, arg, interleaved

tableVars == << row_num, col_num, cells, board, occupied_area >>
docVars == << para_parent, paragraphs, doc, attached, arrivals >>
raceVars == << pc, arg, interleaved >>
vars == << tableVars, parent, ret, docVars, raceVars >>

\* ------------------------------------------- geometry primitive (Rect[int])
Rect(l, t, w, h) == [left |-> l, top |-> t, width |-> w, height |-> h]

right(r) == r.left + r.width - 1

bottom(r) == r.top + r.height - 1

area(r) == r.width * r.height

contains_point(r, x, y) ==
    /\ r.left <= x /\ x <= right(r)
    /\ r.top <= y /\ y <= bottom(r)

contains(outer, r) ==
    /\ outer.left <= r.left /\ right(r) <= right(outer)
    /\ outer.top <= r.top /\ bottom(r) <= bottom(outer)

\* The rectangles the caller constructs cells from: every rectangle of
\* positive area that starts inside the largest table (some of them stick
\* out of it), and one degenerate rectangle of area 0.
EmptyRect == Rect(0, 0, 0, 0)

CellRects ==
    { Rect(l, t, w, h) : l \in 0..(MaxCols - 1), t \in 0..(MaxRows - 1),
                         w \in 1..MaxCols, h \in 1..MaxRows }
        \cup { EmptyRect }

\* ---------------------------------------------------------------- Cell
Cells == CellRects \X (1..Copies)

SpareCells == { << Rect(0, 0, 1, 1), Copies + 1 >>, << EmptyRect, Copies + 1 >> }

\* The value of "no cell" (Python None) where a cell is expected.
NoCell == << EmptyRect, 0 >>

rect(c) == c[1]

\* cell.parent: the cells outside DOMAIN parent still have parent = None
parentOf(c) == IF c \in DOMAIN parent THEN parent[c] ELSE None

Usable(c) == IF c[2] = 1 THEN TRUE ELSE << c[1], c[2] - 1 >> \in DOMAIN parent

\* --------------------------------------------------------------- Table
\* Table.__init__: super().__init__(0, 0, col_num, row_num)
TableRect(t) == Rect(0, 0, col_num[t], row_num[t])

\* Seeded fault: the board is built col_num x row_num.
EmptyBoardMut(rows, cols) ==
    [y \in 0..(cols - 1) |-> [x \in 0..(rows - 1) |-> _UNOCCUPIED_CELL]]

\* [[_UNOCCUPIED_CELL for x in range(col_num)] for y in range(row_num)]
EmptyBoard(rows, cols) ==
    [y \in 0..(rows - 1) |-> [x \in 0..(cols - 1) |-> _UNOCCUPIED_CELL]]

\* Seeded fault: occupied_area grows by the cell's width, not its area.
fill_boardAreaMut(tb, cell, idx) ==
    [board |->
        [row \in DOMAIN tb.board |->
            [col \in DOMAIN tb.board[row] |->
                IF /\ row \in rect(cell).top .. bottom(rect(cell))
                   /\ col \in rect(cell).left .. right(rect(cell))
                THEN idx ELSE tb.board[row][col]]],
     occupied_area |-> tb.occupied_area + rect(cell).width]

\* Seeded fault: the row range stops at bottom instead of bottom + 1.
fill_boardMut(tb, cell, idx) ==
    [board |->
        [row \in DOMAIN tb.board |->
            [col \in DOMAIN tb.board[row] |->
                IF /\ row \in rect(cell).top .. (bottom(rect(cell)) - 1)
                   /\ col \in rect(cell).left .. right(rect(cell))
                THEN idx ELSE tb.board[row][col]]],
     occupied_area |-> tb.occupied_area + area(rect(cell))]

\* Table._fill_board, on the pair (board, occupied_area) of one table
fill_board(tb, cell, idx) ==
    [board |->
        [row \in DOMAIN tb.board |->
            [col \in DOMAIN tb.board[row] |->
                IF /\ row \in rect(cell).top .. bottom(rect(cell))
                   /\ col \in rect(cell).left .. right(rect(cell))
                THEN idx ELSE tb.board[row][col]]],
     occupied_area |-> tb.occupied_area + area(rect(cell))]

\* Seeded fault: the sort key is (left, top).
KeyLessMut(a, b) ==
    \/ rect(a).left < rect(b).left
    \/ (rect(a).left = rect(b).left /\ rect(a).top < rect(b).top)

\* key=lambda cell: (cell.top(), cell.left()), compared as Python tuples
KeyLess(a, b) ==
    \/ rect(a).top < rect(b).top
    \/ (rect(a).top = rect(b).top /\ rect(a).left < rect(b).left)

\* list.sort is stable: a cell goes after every cell whose key is <= its own
RECURSIVE InsertSorted(_, _)
InsertSorted(c, s) ==
    IF s = << >> THEN << c >>
    ELSE IF KeyLess(c, Head(s)) THEN << c >> \o s
    ELSE << Head(s) >> \o InsertSorted(c, Tail(s))

\* self._cells.sort(key=...)
RECURSIVE SortCells(_)
SortCells(s) ==
    IF s = << >> THEN << >>
    ELSE InsertSorted(s[Len(s)], SortCells(SubSeq(s, 1, Len(s) - 1)))

\* Seeded fault: only a cell whose top-left coordinate is still unoccupied
\* is written to the board; the entries of the older cells are left alone.
RECURSIVE RebuildStaleMut(_, _, _)
RebuildStaleMut(tb, s, i) ==
    IF i >= Len(s) THEN tb
    ELSE IF area(rect(s[i + 1])) = 0 THEN RebuildStaleMut(tb, s, i + 1)
    ELSE IF tb.board[rect(s[i + 1]).top][rect(s[i + 1]).left] = _UNOCCUPIED_CELL
    THEN RebuildStaleMut(fill_board(tb, s[i + 1], i), s, i + 1)
    ELSE RebuildStaleMut(
             [tb EXCEPT !.occupied_area = @ + area(rect(s[i + 1]))], s, i + 1)

\* for i, _cell in enumerate(self._cells): self._fill_board(_cell, i)
RECURSIVE Rebuild(_, _, _)
Rebuild(tb, s, i) ==
    IF i >= Len(s) THEN tb
    ELSE Rebuild(fill_board(tb, s[i + 1], i), s, i + 1)

\* Seeded fault: occupied_area is not reset before the rebuild.
rebuildMut(t, s) ==
    Rebuild([board |-> board[t], occupied_area |-> occupied_area[t]], s, 0)

\* self._occupied_area = 0, then the enumerate loop
rebuild(t, s) ==
    Rebuild([board |-> board[t], occupied_area |-> 0], s, 0)

\* Seeded fault: the overlap loop runs column by column.
RECURSIVE ScanColMut(_, _, _, _)
ScanColMut(b, r, row, col) ==
    IF col > right(r) THEN << "free", NoCoord, NoCoord >>
    ELSE IF row > bottom(r) THEN ScanColMut(b, r, r.top, col + 1)
    ELSE IF row \notin DOMAIN b THEN << "IndexError", row, col >>
    ELSE IF col \notin DOMAIN b[row] THEN << "IndexError", row, col >>
    ELSE IF b[row][col] # _UNOCCUPIED_CELL THEN << "occupied", row, col >>
    ELSE ScanColMut(b, r, row + 1, col)

\* Seeded fault: the overlap loop scans the top row of the cell only.
RECURSIVE ScanTopRowMut(_, _, _, _)
ScanTopRowMut(b, r, row, col) ==
    IF row > bottom(r) \/ row > r.top \/ col > right(r)
    THEN << "free", NoCoord, NoCoord >>
    ELSE IF row \notin DOMAIN b THEN << "IndexError", row, col >>
    ELSE IF col \notin DOMAIN b[row] THEN << "IndexError", row, col >>
    ELSE IF b[row][col] # _UNOCCUPIED_CELL THEN << "occupied", row, col >>
    ELSE ScanTopRowMut(b, r, row, col + 1)

\* Seeded fault: the overlap loop looks at the top-left coordinate only.
ScanMut(b, r, row, col) ==
    IF row > bottom(r) \/ col > right(r) THEN << "free", NoCoord, NoCoord >>
    ELSE IF row \notin DOMAIN b THEN << "IndexError", row, col >>
    ELSE IF col \notin DOMAIN b[row] THEN << "IndexError", row, col >>
    ELSE IF b[row][col] # _UNOCCUPIED_CELL THEN << "occupied", row, col >>
    ELSE << "free", NoCoord, NoCoord >>

\* The overlap loop of add_cell, entered at (cell.top(), cell.left()): the
\* first occupied coordinate met in row-major order over the cell's
\* rectangle, a list index out of range, or no conflict.
RECURSIVE Scan(_, _, _, _)
Scan(b, r, row, col) ==
    IF row > bottom(r) THEN << "free", NoCoord, NoCoord >>
    ELSE IF col > right(r) THEN Scan(b, r, row + 1, r.left)
    ELSE IF row \notin DOMAIN b THEN << "IndexError", row, col >>
    ELSE IF col \notin DOMAIN b[row] THEN << "IndexError", row, col >>
    ELSE IF b[row][col] # _UNOCCUPIED_CELL THEN << "occupied", row, col >>
    ELSE Scan(b, r, row, col + 1)

\* What the last call did: the call, its outcome ("ok", or the exception
\* raised), the coordinate an overlap error reports, the returned cell.
Result(op, err, row, col, cell) ==
    [op |-> op, err |-> err, row |-> row, col |-> col, cell |-> cell]

\* Seeded fault: any occupied coordinate makes the table ready.
ready_to_moveMut(t) == occupied_area[t] > 0 \/ area(TableRect(t)) = 0

\* Table.ready_to_move
ready_to_move(t) == occupied_area[t] = area(TableRect(t))

TotalCells == Len(cells[1]) + Len(cells[2])

\* Seeded fault: only the top-left corner of the cell is tested.
InsideTableMut(t, c) ==
    contains_point(TableRect(t), rect(c).left, rect(c).top)

\* self.contains(cell)
InsideTable(t, c) == contains(TableRect(t), rect(c))

\* What add_cell leaves behind: the exception raised (or "ok"), the
\* coordinate an overlap error reports, and the table's cell sequence, board
\* and occupied_area and the cell's parent after the call.
Outcome(err, row, col, cs, b, occ, par) ==
    [err |-> err, row |-> row, col |-> col, cells |-> cs, board |-> b,
     occupied_area |-> occ, parent |-> par]

\* Table.add_cell(cell), as a function of the state it is called in
add_cell(t, c) ==
    LET r == rect(c)
        hit == Scan(board[t], r, r.top, r.left)
    IN  IF ~InsideTable(t, c) THEN
            Outcome("outside", NoCoord, NoCoord,
                    cells[t], board[t], occupied_area[t], parentOf(c))
        ELSE IF hit[1] # "free" THEN
            Outcome(hit[1], hit[2], hit[3],
                    cells[t], board[t], occupied_area[t], parentOf(c))
        ELSE
            LET sorted == SortCells(Append(cells[t], c))
                tb == rebuild(t, sorted)
            IN  Outcome("ok", NoCoord, NoCoord,
                        sorted, tb.board, tb.occupied_area, t)

\* A call of add_cell.  MaxCells caps the insertions of a run; a call that
\* fails is never cut off.
AddCellCall(t, c) ==
    /\ Usable(c)
    /\ \E o \in { add_cell(t, c) } :
          /\ o.err = "ok" => TotalCells < MaxCells
          /\ cells' = [cells EXCEPT ![t] = o.cells]
          /\ board' = [board EXCEPT ![t] = o.board]
          /\ occupied_area' = [occupied_area EXCEPT ![t] = o.occupied_area]
          /\ parent' = IF o.parent = None THEN parent
                       ELSE [x \in DOMAIN parent \cup {c} |->
                                IF x = c THEN o.parent ELSE parent[x]]
          /\ ret' = Result("add_cell", o.err, o.row, o.col, NoCell)
          /\ UNCHANGED << row_num, col_num >>

AddCell(t, c) ==
    /\ AddCellCall(t, c)
    /\ UNCHANGED << docVars, raceVars >>

\* Seeded fault: UP probes the cell's own top row.
ProbeUpMut(r, d) ==
    CASE d = "UP" -> << r.left, r.top >>
      [] d = "DOWN" -> << r.left, bottom(r) + 1 >>
      [] d = "LEFT" -> << r.left - 1, r.top >>
      [] OTHER -> << right(r) + 1, r.top >>

\* Seeded fault: DOWN and RIGHT probe one step from the top-left corner.
ProbeMut(r, d) ==
    CASE d = "UP" -> << r.left, r.top - 1 >>
      [] d = "DOWN" -> << r.left, r.top + 1 >>
      [] d = "LEFT" -> << r.left - 1, r.top >>
      [] OTHER -> << r.left + 1, r.top >>

\* The probe coordinate (x, y) of Table.move
Probe(r, d) ==
    CASE d = "UP" -> << r.left, r.top - 1 >>
      [] d = "DOWN" -> << r.left, bottom(r) + 1 >>
      [] d = "LEFT" -> << r.left - 1, r.top >>
      [] OTHER -> << right(r) + 1, r.top >>

\* Seeded fault: the parent test comes before the ready_to_move assertion.
moveMut(t, c, d) ==
    IF parentOf(c) # t THEN
        Result("move", "foreign", NoCoord, NoCoord, NoCell)
    ELSE IF ~ready_to_move(t) THEN
        Result("move", "assert ready_to_move", NoCoord, NoCoord, NoCell)
    ELSE
        LET x == Probe(rect(c), d)[1]
            y == Probe(rect(c), d)[2]
        IN  IF contains_point(TableRect(t), x, y)
            THEN Result("move", "ok", NoCoord, NoCoord,
                        cells[t][board[t][y][x] + 1])
            ELSE Result("move", "ok", NoCoord, NoCoord, NoCell)

\* Table.move(cell, direction): the outcome of the call
move(t, c, d) ==
    IF ~ready_to_move(t) THEN
        Result("move", "assert ready_to_move", NoCoord, NoCoord, NoCell)
    ELSE IF parentOf(c) # t THEN
        Result("move", "foreign", NoCoord, NoCoord, NoCell)
    ELSE
        LET x == Probe(rect(c), d)[1]
            y == Probe(rect(c), d)[2]
        IN  IF contains_point(TableRect(t), x, y)
            THEN Result("move", "ok", NoCoord, NoCoord,
                        cells[t][board[t][y][x] + 1])
            ELSE Result("move", "ok", NoCoord, NoCoord, NoCell)

\* Cell.move(direction)
cell_move(c, d) ==
    IF parentOf(c) = None THEN
        Result("cell_move", "assert parent", NoCoord, NoCoord, NoCell)
    ELSE
        [move(parentOf(c), c, d) EXCEPT !.op = "cell_move"]

Move(t, c, d) ==
    /\ c \in DOMAIN parent \cup SpareCells
    /\ ret' = move(t, c, d)
    /\ UNCHANGED << tableVars, parent, docVars, raceVars >>

CellMove(c, d) ==
    /\ c \in DOMAIN parent \cup SpareCells
    /\ ret' = cell_move(c, d)
    /\ UNCHANGED << tableVars, parent, docVars, raceVars >>

\* ------------------------------------------- paragraphs and serialization
\* cell._paragraphs: the cells outside DOMAIN paragraphs still have []
paragraphsOf(c) == IF c \in DOMAIN paragraphs THEN paragraphs[c] ELSE << >>

\* bool(paragraph.parent): None is false, a Cell object is true
IsTruthy(x) == x # NoCell

\* What append_paragraph leaves behind: the exception raised (or "ok"), every
\* paragraph's parent and every cell's paragraph sequence after the call.
ParaOutcome(err, pp, ps) == [err |-> err, para_parent |-> pp, paragraphs |-> ps]

\* Seeded fault: only a paragraph of this very cell is refused.
append_paragraphMut(c, p) ==
    IF para_parent[p] = c THEN
        ParaOutcome("ownership", para_parent, paragraphs)
    ELSE
        ParaOutcome("ok", [para_parent EXCEPT ![p] = c],
                    [x \in DOMAIN paragraphs \cup {c} |->
                        IF x = c THEN Append(paragraphsOf(c), p)
                        ELSE paragraphs[x]])

\* Cell.append_paragraph(paragraph), as a function of the state it is
\* called in
append_paragraph(c, p) ==
    IF IsTruthy(para_parent[p]) THEN
        ParaOutcome("ownership", para_parent, paragraphs)
    ELSE
        ParaOutcome("ok", [para_parent EXCEPT ![p] = c],
                    [x \in DOMAIN paragraphs \cup {c} |->
                        IF x = c THEN Append(paragraphsOf(c), p)
                        ELSE paragraphs[x]])

\* The records of the external collaborators, opaque to this module.
rect_to_dict(r) ==
    [left |-> r.left, top |-> r.top, width |-> r.width, height |-> r.height]

paragraph_to_dict(p) == [type |-> "paragraph", id |-> p]

\* Cell.to_dict
cell_to_dict(c) ==
    [type |-> "cell",
     rect |-> rect_to_dict(rect(c)),
     paragraphs |-> [i \in 1 .. Len(paragraphsOf(c)) |->
                        paragraph_to_dict(paragraphsOf(c)[i])]]

\* Seeded fault: the cells are listed in the order they were inserted.
table_to_dictMut(t) ==
    [type |-> "table",
     cells |-> [i \in 1 .. Len(arrivals[t]) |-> cell_to_dict(arrivals[t][i])]]

\* Table.to_dict
table_to_dict(t) ==
    [type |-> "table",
     cells |-> [i \in 1 .. Len(cells[t]) |-> cell_to_dict(cells[t][i])]]

\* No record: the last call was not to_dict.
NoDoc == [type |-> "none", cells |-> << >>]

\* Table.__init__ for every table, Cell.__init__ for every cell, and the
\* paragraphs constructed with no parent; no thread is inside a call.
Init ==
    /\ row_num \in [Tables -> 0..MaxRows]
    /\ col_num \in [Tables -> 0..MaxCols]
    /\ (row_num[1] > row_num[2]
           \/ (row_num[1] = row_num[2] /\ col_num[1] >= col_num[2]))
    /\ cells = [t \in Tables |-> << >>]
    /\ occupied_area = [t \in Tables |-> 0]
    /\ board = [t \in Tables |-> EmptyBoard(row_num[t], col_num[t])]
    /\ parent = [c \in {} |-> None]
    /\ ret = Result("init", "ok", NoCoord, NoCoord, NoCell)
    /\ para_parent = [p \in Paragraphs |-> NoCell]
    /\ paragraphs = [c \in {} |-> << >>]
    /\ doc = NoDoc
    /\ attached = << >>
    /\ arrivals = [t \in Tables |-> << >>]
    /\ pc = [th \in Threads |-> "idle"]
    /\ arg = [th \in Threads |-> NoCell]
    /\ interleaved = FALSE

Next ==
    \/ \E t \in Tables, c \in Cells : AddCell(t, c)
    \/ \E t \in Tables, c \in DOMAIN parent \cup SpareCells, d \in Direction :
          Move(t, c, d)
    \/ \E c \in DOMAIN parent \cup SpareCells, d \in Direction : CellMove(c, d)

Spec == Init /\ [][Next]_vars

\* ------------------------------------------------ one table as a document
\* Cells are inserted into table 1, paragraphs are attached to cells, and
\* the table is serialized; table 2 is a 0 x 0 table that is left alone.
DocTable == 1

DocInit == Init /\ row_num[2] = 0 /\ col_num[2] = 0

DocAddCell(t, c) ==
    /\ AddCellCall(t, c)
    /\ arrivals' = IF ret'.err = "ok"
                   THEN [arrivals EXCEPT ![t] = Append(@, c)]
                   ELSE arrivals
    /\ doc' = NoDoc
    /\ UNCHANGED << para_parent, paragraphs, attached, raceVars >>

\* The paragraphs are interchangeable until attached: paragraph p + 1 is
\* used only after paragraph p has been attached.
UsablePara(p) == IF p = 1 THEN TRUE ELSE IsTruthy(para_parent[p - 1])

\* A call of append_paragraph; it returns self.
AppendParagraph(c, p) ==
    /\ UsablePara(p)
    /\ \E o \in { append_paragraph(c, p) } :
          /\ para_parent' = o.para_parent
          /\ paragraphs' = o.paragraphs
          /\ attached' = IF o.err = "ok" THEN Append(attached, << p, c >>)
                         ELSE attached
          /\ ret' = Result("append_paragraph", o.err, NoCoord, NoCoord,
                           IF o.err = "ok" THEN c ELSE NoCell)
    /\ doc' = NoDoc
    /\ UNCHANGED << tableVars, parent, arrivals, raceVars >>

\* A call of Table.to_dict
ToDict(t) ==
    /\ doc' = table_to_dict(t)
    /\ ret' = Result("to_dict", "ok", NoCoord, NoCoord, NoCell)
    /\ UNCHANGED << tableVars, parent, para_parent, paragraphs, attached,
                    arrivals, raceVars >>

DocNext ==
    \/ \E c \in Cells : DocAddCell(DocTable, c)
    \/ \E c \in DOMAIN parent \cup SpareCells, p \in Paragraphs :
          AppendParagraph(c, p)
    \/ ToDict(DocTable)

SpecDoc == DocInit /\ [][DocNext]_vars

\* ------------------------------------- two threads calling add_cell at once
\* add_cell holds no lock, so a thread can be preempted between its
\* statements.  A call is cut into the containment and overlap check
\* (lines 75-83), the assignment of the parent with append and sort (lines
\* 85-87), and the reset and rebuild of the board (lines 88-90).  Both
\* threads call add_cell on table 1; table 2 is a 0 x 0 table left alone.
RaceTable == 1

RaceInit == Init /\ row_num[2] = 0 /\ col_num[2] = 0

Other(th) == 3 - th

\* The calls that have passed the check and not yet appended their cell.
Pending == Cardinality({ th \in Threads : pc[th] = "checked" })

\* Lines 75-83: an exception ends the call, otherwise the thread goes on.
RaceCheck(th, c) ==
    /\ pc[th] = "idle"
    /\ Usable(c)
    /\ \E hit \in { Scan(board[RaceTable], rect(c), rect(c).top, rect(c).left) } :
          IF ~InsideTable(RaceTable, c) THEN
              /\ ret' = Result("add_cell", "outside", NoCoord, NoCoord, NoCell)
              /\ UNCHANGED << pc, arg >>
          ELSE IF hit[1] # "free" THEN
              /\ ret' = Result("add_cell", hit[1], hit[2], hit[3], NoCell)
              /\ UNCHANGED << pc, arg >>
          ELSE
              /\ Len(cells[RaceTable]) + Pending < MaxCells
              /\ pc' = [pc EXCEPT ![th] = "checked"]
              /\ arg' = [arg EXCEPT ![th] = c]
              /\ ret' = ret
    /\ interleaved' = IF pc[Other(th)] # "idle" THEN TRUE ELSE interleaved
    /\ UNCHANGED << tableVars, parent, docVars >>

\* Lines 85-87: cell.parent = self, append, sort.
RaceAppend(th) ==
    /\ pc[th] = "checked"
    /\ parent' = [x \in DOMAIN parent \cup {arg[th]} |->
                     IF x = arg[th] THEN RaceTable ELSE parent[x]]
    /\ cells' = [cells EXCEPT
                    ![RaceTable] = SortCells(Append(cells[RaceTable], arg[th]))]
    /\ pc' = [pc EXCEPT ![th] = "appended"]
    /\ interleaved' = IF pc[Other(th)] # "idle" THEN TRUE ELSE interleaved
    /\ UNCHANGED << row_num, col_num, board, occupied_area, ret, arg, docVars >>

\* Lines 88-91: reset occupied_area, refill the board from the sequence as
\* it is now, return.
RaceRebuild(th) ==
    /\ pc[th] = "appended"
    /\ \E tb \in { rebuild(RaceTable, cells[RaceTable]) } :
          /\ board' = [board EXCEPT ![RaceTable] = tb.board]
          /\ occupied_area' = [occupied_area EXCEPT ![RaceTable] = tb.occupied_area]
    /\ pc' = [pc EXCEPT ![th] = "idle"]
    /\ arg' = [arg EXCEPT ![th] = NoCell]
    /\ ret' = Result("add_cell", "ok", NoCoord, NoCoord, NoCell)
    /\ interleaved' = IF pc[Other(th)] # "idle" THEN TRUE ELSE interleaved
    /\ UNCHANGED << row_num, col_num, cells, parent, docVars >>

RaceNext ==
    \/ \E th \in Threads, c \in Cells : RaceCheck(th, c)
    \/ \E th \in Threads : RaceAppend(th)
    \/ \E th \in Threads : RaceRebuild(th)

SpecRace == RaceInit /\ [][RaceNext]_vars

\* ------------------------------------------------------------ properties
\* Geometry as the claims state it, written out on the rectangle's fields.
CoversAt(c, row, col) ==
    /\ c[1].top <= row /\ row < c[1].top + c[1].height
    /\ c[1].left <= col /\ col < c[1].left + c[1].width

Grid(t) == (0 .. (row_num[t] - 1)) \X (0 .. (col_num[t] - 1))

Positions(t) == 1 .. Len(cells[t])

\* Every grid coordinate of table t is covered by a cell of its sequence.
FullyCovered(t) ==
    \A p \in Grid(t) : \E i \in Positions(t) : CoversAt(cells[t][i], p[1], p[2])

LiesInside(t, c) ==
    /\ 0 <= c[1].left /\ c[1].left + c[1].width <= col_num[t]
    /\ 0 <= c[1].top /\ c[1].top + c[1].height <= row_num[t]

Overlaps(t, c) ==
    \E p \in Grid(t) : \E i \in Positions(t) :
        CoversAt(c, p[1], p[2]) /\ CoversAt(cells[t][i], p[1], p[2])

\* C1: in every reachable state, after successful and failed add_cell calls
\* alike, board[row][col] = i exactly when the cell at position i of the
\* cell sequence covers (row, col), and board[row][col] is the unoccupied
\* marker exactly when no cell of the sequence covers (row, col).
C1_BoardMirrorsCells ==
    \A t \in Tables : \A p \in Grid(t) :
        /\ \A i \in Positions(t) :
              (board[t][p[1]][p[2]] = i - 1) <=> CoversAt(cells[t][i], p[1], p[2])
        /\ (board[t][p[1]][p[2]] = _UNOCCUPIED_CELL)
              <=> ~(\E i \in Positions(t) : CoversAt(cells[t][i], p[1], p[2]))

C1_Witness ==
    /\ ret.op = "add_cell" /\ ret.err = "occupied"
    /\ Len(cells[1]) = 3
    /\ \E i \in Positions(1) : area(rect(cells[1][i])) = 2
    /\ \E p \in Grid(1) : board[1][p[1]][p[2]] = _UNOCCUPIED_CELL
    /\ \E p \in Grid(1) : board[1][p[1]][p[2]] = 2

\* C2: any two cells at different positions of a table's cell sequence cover
\* disjoint sets of coordinates, and every cell of the sequence lies inside
\* the rectangle (0, 0, col_num, row_num).
C2_DisjointAndInside ==
    \A t \in Tables :
        /\ \A i, j \in Positions(t) :
              i # j => ~(\E row \in 0 .. MaxRows + 1, col \in 0 .. MaxCols + 1 :
                            /\ CoversAt(cells[t][i], row, col)
                            /\ CoversAt(cells[t][j], row, col))
        /\ \A i \in Positions(t) : LiesInside(t, cells[t][i])

C2_Witness ==
    /\ Len(cells[1]) = 3
    /\ \A i \in Positions(1) : area(rect(cells[1][i])) > 0
    /\ ret.op = "add_cell" /\ ret.err = "ok"

\* C3: the cell sequence is ordered by (top, left) ascending, whatever the
\* arrival order, and every occupied board entry is a position of it.
C3_SortedByTopLeft ==
    \A t \in Tables :
        /\ \A i, j \in Positions(t) :
              i < j => \/ cells[t][i][1].top < cells[t][j][1].top
                       \/ /\ cells[t][i][1].top = cells[t][j][1].top
                          /\ cells[t][i][1].left <= cells[t][j][1].left
        /\ \A p \in Grid(t) :
              board[t][p[1]][p[2]] # _UNOCCUPIED_CELL
                  => board[t][p[1]][p[2]] \in 0 .. (Len(cells[t]) - 1)

\* Three cells, two of them with the same top, in a table that some
\* insertion order filled (every order is explored).
C3_Witness ==
    /\ ret.op = "add_cell" /\ ret.err = "ok"
    /\ Len(cells[1]) = 3
    /\ cells[1][1][1] = Rect(0, 0, 1, 1)
    /\ cells[1][2][1] = Rect(1, 0, 1, 2)
    /\ cells[1][3][1] = Rect(0, 1, 1, 1)
    /\ board[1][1][0] = 2

\* C4: in every reachable state, add_cell with a cell that is not entirely
\* inside the table raises the out-of-bounds error and leaves board,
\* occupied_area, cell sequence and the cell's parent as they were.
C4_OutsideRejected ==
    \A t \in Tables, c \in Cells \cup SpareCells :
        ~LiesInside(t, c) =>
            \A o \in { add_cell(t, c) } :
                /\ o.err = "outside"
                /\ o.board = board[t]
                /\ o.occupied_area = occupied_area[t]
                /\ o.cells = cells[t]
                /\ o.parent = parentOf(c)

C4_Witness ==
    /\ ret.op = "add_cell" /\ ret.err = "outside"
    /\ Len(cells[1]) >= 2
    /\ row_num[1] = MaxRows /\ col_num[1] = MaxCols

\* C5: in every reachable state, add_cell with a cell that is inside the
\* table and covers a coordinate that a cell of the sequence covers raises
\* the overlap error and leaves board, occupied_area, cell sequence and the
\* cell's parent as they were.
C5_OverlapRejected ==
    \A t \in Tables, c \in Cells \cup SpareCells :
        (LiesInside(t, c) /\ Overlaps(t, c)) =>
            \A o \in { add_cell(t, c) } :
                /\ o.err = "occupied"
                /\ o.board = board[t]
                /\ o.occupied_area = occupied_area[t]
                /\ o.cells = cells[t]
                /\ o.parent = parentOf(c)

C5_Witness ==
    /\ ret.op = "add_cell" /\ ret.err = "occupied"
    /\ ret.row = 1 /\ ret.col = 1
    /\ Len(cells[1]) >= 2

\* C6: ready_to_move() is true exactly when no coordinate of the board is
\* unoccupied; when the cells tile the table, ready_to_move() is true and
\* occupied_area equals the table area.
C6_ReadyIffFull ==
    \A t \in Tables :
        /\ ready_to_move(t)
              <=> (\A p \in Grid(t) : board[t][p[1]][p[2]] # _UNOCCUPIED_CELL)
        /\ FullyCovered(t)
              => (ready_to_move(t) /\ occupied_area[t] = row_num[t] * col_num[t])

C6_Witness ==
    /\ row_num[1] = 2 /\ col_num[1] = 2
    /\ Len(cells[1]) = 3
    /\ FullyCovered(1)
    /\ ready_to_move(1)
    /\ ~ready_to_move(2)

\* C7: a freshly constructed Table has an empty cell sequence, occupied_area
\* 0, a row_num x col_num board with every entry unoccupied, and
\* ready_to_move() equal to (row_num * col_num = 0).
C7_FreshTable ==
    ret.op = "init" =>
        \A t \in Tables :
            /\ cells[t] = << >>
            /\ occupied_area[t] = 0
            /\ DOMAIN board[t] = 0 .. (row_num[t] - 1)
            /\ \A y \in DOMAIN board[t] :
                  /\ DOMAIN board[t][y] = 0 .. (col_num[t] - 1)
                  /\ \A x \in DOMAIN board[t][y] :
                        board[t][y][x] = _UNOCCUPIED_CELL
            /\ ready_to_move(t) <=> (row_num[t] * col_num[t] = 0)

C7_Witness ==
    /\ ret.op = "init"
    /\ row_num[1] = 2 /\ col_num[1] = 1 /\ ~ready_to_move(1)
    /\ row_num[2] = 0 /\ col_num[2] = 2 /\ ready_to_move(2)

AllCells == Cells \cup SpareCells

\* The probe of the claim, written out per direction: (x, y).
ProbeX(c, d) ==
    CASE d = "LEFT" -> c[1].left - 1
      [] d = "RIGHT" -> c[1].left + c[1].width
      [] OTHER -> c[1].left

ProbeY(c, d) ==
    CASE d = "UP" -> c[1].top - 1
      [] d = "DOWN" -> c[1].top + c[1].height
      [] OTHER -> c[1].top

\* C8: on a fully occupied table, for every cell owned by the table and
\* every direction, move returns the inserted cell that covers the probe
\* UP = (left, top - 1), DOWN = (left, bottom + 1), LEFT = (left - 1, top),
\* RIGHT = (right + 1, top) when the probe is inside the table, and none
\* exactly when the probe is outside the table.
C8_MoveReturnsProbeCell ==
    \A t \in Tables, c \in DOMAIN parent, d \in Direction :
        (FullyCovered(t) /\ parent[c] = t) =>
            \A o \in { move(t, c, d) } :
                /\ o.err = "ok"
                /\ IF << ProbeY(c, d), ProbeX(c, d) >> \in Grid(t)
                   THEN /\ o.cell # NoCell
                        /\ \E i \in Positions(t) : cells[t][i] = o.cell
                        /\ CoversAt(o.cell, ProbeY(c, d), ProbeX(c, d))
                   ELSE o.cell = NoCell

\* Table 1 is 2 x 2 with a merged 1 x 2 cell over two 1 x 1 cells, and the
\* last call was a move that returned the cell under the left column.
C8_Witness ==
    /\ ret.op = "move" /\ ret.err = "ok"
    /\ ret.cell[1] = Rect(0, 1, 1, 1)
    /\ Len(cells[1]) = 3
    /\ cells[1][1][1] = Rect(0, 0, 2, 1)
    /\ parentOf(cells[1][1]) = 1
    /\ FullyCovered(1)

\* C9: while a table is not fully occupied, Table.move fails the
\* ready_to_move assertion for every cell and direction, and so does
\* Cell.move of a cell whose parent is that table; Cell.move of a cell that
\* was never inserted fails the parent assertion; none of these calls
\* returns a cell or none, and a move call changes no table state.
C9_Asserts ==
    /\ \A t \in Tables, c \in AllCells, d \in Direction :
          ~FullyCovered(t) =>
              /\ move(t, c, d).err = "assert ready_to_move"
              /\ move(t, c, d).cell = NoCell
    /\ \A c \in AllCells, d \in Direction :
          /\ parentOf(c) = None => cell_move(c, d).err = "assert parent"
          /\ (parentOf(c) # None /\ ~FullyCovered(parentOf(c)))
                => cell_move(c, d).err = "assert ready_to_move"

C9_PrematureMoveFails ==
    /\ []C9_Asserts
    /\ [][ret'.op \in {"move", "cell_move"}
             => (/\ cells' = cells /\ board' = board
                 /\ occupied_area' = occupied_area /\ parent' = parent
                 /\ row_num' = row_num /\ col_num' = col_num)]_vars

C9_Witness ==
    /\ ret.op = "cell_move" /\ ret.err = "assert ready_to_move"
    /\ Len(cells[1]) = 2
    /\ ~FullyCovered(1)
    /\ \E p \in Grid(1) : board[1][p[1]][p[2]] = _UNOCCUPIED_CELL

\* C10: on a fully occupied table, move with a cell whose parent is not the
\* table raises the foreign-cell error for every direction and returns no
\* cell, and it raises that error for no cell of the table's own sequence.
\* Stated here for the tables and cells of positive area, which the claim
\* includes.
C10_ForeignRejected ==
    \A t \in Tables, c \in AllCells, d \in Direction :
        (FullyCovered(t) /\ row_num[t] * col_num[t] > 0 /\ c[1] # EmptyRect) =>
            /\ parentOf(c) # t
                  => (move(t, c, d).err = "foreign" /\ move(t, c, d).cell = NoCell)
            /\ (\E i \in Positions(t) : cells[t][i] = c)
                  => move(t, c, d).err # "foreign"

\* C11: a cell's parent, once set by a successful add_cell, is never changed
\* by any later call on any table, the offer of an already inserted cell to a
\* second table included.  Stated for the cells of positive area.
C11_ParentSetOnce ==
    [][\A c \in DOMAIN parent :
          c[1] # EmptyRect => parent'[c] = parent[c]]_vars

\* C12: no cell is in the cell sequences of two different tables, and every
\* cell of a table's sequence has that table as its parent.  Stated for the
\* cells of positive area.
C12_ExclusiveOwnership ==
    /\ \A i \in Positions(1), j \in Positions(2) :
          cells[1][i][1] # EmptyRect => cells[1][i] # cells[2][j]
    /\ \A t \in Tables : \A i \in Positions(t) :
          cells[t][i][1] # EmptyRect => parentOf(cells[t][i]) = t

\* A cell of table t's sequence covers (row, col).
OccupiedAt(t, row, col) ==
    \E i \in Positions(t) : CoversAt(cells[t][i], row, col)

\* C16: when add_cell fails with the overlap error, the coordinate it
\* reports is an already occupied coordinate of the new cell's rectangle,
\* and no coordinate of that rectangle that comes before it in row-major
\* order is occupied.
C16_FirstOccupiedReported ==
    \A t \in Tables, c \in AllCells :
        \A o \in { add_cell(t, c) } :
            o.err = "occupied" =>
                /\ CoversAt(c, o.row, o.col)
                /\ OccupiedAt(t, o.row, o.col)
                /\ \A p \in Grid(t) :
                      (/\ CoversAt(c, p[1], p[2])
                       /\ (p[1] < o.row \/ (p[1] = o.row /\ p[2] < o.col)))
                          => ~OccupiedAt(t, p[1], p[2])

\* The last call reported (0, 1) on the 2 x 2 table 1 while (1, 0), which a
\* column-major scan meets first, is occupied as well and (0, 0) is free.
C16_Witness ==
    /\ ret.op = "add_cell" /\ ret.err = "occupied"
    /\ ret.row = 0 /\ ret.col = 1
    /\ row_num[1] = 2 /\ col_num[1] = 2 /\ cells[2] = << >>
    /\ OccupiedAt(1, 0, 1) /\ OccupiedAt(1, 1, 0) /\ ~OccupiedAt(1, 0, 0)

RECURSIVE SumAreas(_)
SumAreas(s) ==
    IF s = << >> THEN 0
    ELSE s[1][1].width * s[1][1].height + SumAreas(Tail(s))

\* C17: in every reachable state occupied_area equals the sum of the areas
\* of the cells of the sequence, equals the number of occupied board
\* coordinates and is at most the table area; a successful add_cell raises
\* it by exactly the new cell's area and a failed one leaves it unchanged.
C17_OccupiedAreaAccounting ==
    \A t \in Tables :
        /\ occupied_area[t] = SumAreas(cells[t])
        /\ occupied_area[t] = Cardinality(
              { p \in Grid(t) : board[t][p[1]][p[2]] # _UNOCCUPIED_CELL })
        /\ occupied_area[t] <= row_num[t] * col_num[t]
        /\ \A c \in AllCells : \A o \in { add_cell(t, c) } :
              o.occupied_area =
                  IF o.err = "ok"
                  THEN occupied_area[t] + c[1].width * c[1].height
                  ELSE occupied_area[t]

\* Table 1 holds a 1 x 2 cell (two rows high) and a 1 x 1 cell after a
\* successful insertion.
C17_Witness ==
    /\ ret.op = "add_cell" /\ ret.err = "ok"
    /\ Len(cells[1]) = 2 /\ occupied_area[1] = 3
    /\ \E i \in Positions(1) : cells[1][i][1].height = 2

\* C19: once ready_to_move() is true it stays true over every later call,
\* and on a ready table add_cell of a cell of positive area fails with the
\* out-of-bounds or the overlap error and leaves the table as it was.
C19_ReadyAddFails ==
    \A t \in Tables, c \in AllCells :
        (ready_to_move(t) /\ c[1].width * c[1].height > 0) =>
            \A o \in { add_cell(t, c) } :
                /\ o.err \in { "outside", "occupied" }
                /\ o.cells = cells[t]
                /\ o.board = board[t]
                /\ o.occupied_area = occupied_area[t]
                /\ o.parent = parentOf(c)

C19_ReadyForever ==
    /\ []C19_ReadyAddFails
    /\ [][\A t \in Tables : ready_to_move(t) => ready_to_move(t)']_vars

\* Table 1 is 2 x 2 and ready, and the last call was an add_cell that failed
\* with the overlap error.
C19_Witness ==
    /\ row_num[1] = 2 /\ col_num[1] = 2 /\ ready_to_move(1)
    /\ cells[2] = << >>
    /\ ret.op = "add_cell" /\ ret.err = "occupied"

\* Cell o lies against the edge of cell c on the side of direction d, in the
\* column (UP, DOWN) or row (LEFT, RIGHT) of c's top-left corner.
TouchesEdge(o, c, d) ==
    CASE d = "UP" ->
            /\ o[1].top + o[1].height = c[1].top
            /\ o[1].left <= c[1].left /\ c[1].left < o[1].left + o[1].width
      [] d = "DOWN" ->
            /\ o[1].top = c[1].top + c[1].height
            /\ o[1].left <= c[1].left /\ c[1].left < o[1].left + o[1].width
      [] d = "LEFT" ->
            /\ o[1].left + o[1].width = c[1].left
            /\ o[1].top <= c[1].top /\ c[1].top < o[1].top + o[1].height
      [] OTHER ->
            /\ o[1].left = c[1].left + c[1].width
            /\ o[1].top <= c[1].top /\ c[1].top < o[1].top + o[1].height

\* C20: on a fully occupied table, for every owned cell of positive area and
\* every direction, move succeeds and never returns the moving cell: the
\* result is none or a different cell that touches the moving cell's edge
\* on the side of the direction.
C20_MoveNeverReturnsSelf ==
    \A t \in Tables, c \in DOMAIN parent, d \in Direction :
        (/\ ready_to_move(t) /\ parent[c] = t
         /\ c[1].width * c[1].height > 0) =>
            \A o \in { move(t, c, d) } :
                /\ o.err = "ok"
                /\ o.cell # c
                /\ o.cell # NoCell => TouchesEdge(o.cell, c, d)

\* Cell.move(UP) on the lower 1 x 1 cell of the left column of the 2 x 2
\* table 1 returned the 1 x 1 cell above it.
C20_Witness ==
    /\ ret.op = "cell_move" /\ ret.err = "ok"
    /\ ret.cell[1] = Rect(0, 0, 1, 1)
    /\ row_num[1] = 2 /\ col_num[1] = 2 /\ ready_to_move(1)
    /\ cells[2] = << >>
    /\ Len(cells[1]) = 3
    /\ cells[1][2][1] = Rect(1, 0, 1, 2)

DocCells == DOMAIN parent \cup SpareCells

Attached(p) == \E i \in DOMAIN attached : attached[i][1] = p

\* C13: a paragraph is attached at most once ever; once it is attached,
\* append_paragraph of it on the same or on any other cell raises the
\* ownership error and leaves the parent of every paragraph and the
\* paragraph sequence of every cell as they were.
C13_ParagraphSingleOwner ==
    /\ \A i, j \in DOMAIN attached :
          attached[i][1] = attached[j][1] => i = j
    /\ \A i \in DOMAIN attached :
          /\ para_parent[attached[i][1]] = attached[i][2]
          /\ \E k \in DOMAIN paragraphsOf(attached[i][2]) :
                paragraphsOf(attached[i][2])[k] = attached[i][1]
    /\ \A p \in Paragraphs : Attached(p) =>
          \A c \in DocCells : \A o \in { append_paragraph(c, p) } :
              /\ o.err = "ownership"
              /\ o.para_parent = para_parent
              /\ o.paragraphs = paragraphs

\* Paragraph 1 belongs to one cell, and the last call, an append_paragraph
\* after both paragraphs were attached to different cells, was refused.
C13_Witness ==
    /\ ret.op = "append_paragraph" /\ ret.err = "ownership"
    /\ Len(attached) = 2
    /\ attached[1][2] # attached[2][2]

\* The paragraph records of the attachments to cell c, in the order of the
\* attachments.
RECURSIVE AttachedTo(_, _)
AttachedTo(c, log) ==
    IF log = << >> THEN << >>
    ELSE (IF log[1][2] = c
          THEN << [type |-> "paragraph", id |-> log[1][1]] >> ELSE << >>)
         \o AttachedTo(c, Tail(log))

\* C14: the record Table.to_dict returns for a table with N inserted cells
\* has exactly N cell records, one per insertion, in ascending (top, left)
\* order whatever the order of insertion was, and each cell record lists the
\* paragraphs of its cell in the order they were attached.
C14_SerializedInOrder ==
    ret.op = "to_dict" =>
        /\ doc.type = "table"
        /\ Len(doc.cells) = Len(arrivals[DocTable])
        /\ \A r \in CellRects :
              Cardinality({ i \in DOMAIN doc.cells :
                              doc.cells[i].rect = rect_to_dict(r) })
                = Cardinality({ i \in DOMAIN arrivals[DocTable] :
                                  arrivals[DocTable][i][1] = r })
        /\ \A i, j \in DOMAIN doc.cells :
              i < j =>
                 \/ doc.cells[i].rect.top < doc.cells[j].rect.top
                 \/ /\ doc.cells[i].rect.top = doc.cells[j].rect.top
                    /\ doc.cells[i].rect.left <= doc.cells[j].rect.left
        /\ \A i \in DOMAIN doc.cells :
              /\ doc.cells[i].type = "cell"
              /\ doc.cells[i].paragraphs
                    = AttachedTo(cells[DocTable][i], attached)

\* The serialized table has three cells that were not inserted in sorted
\* order, and its first cell carries both paragraphs.
C14_Witness ==
    /\ ret.op = "to_dict"
    /\ Len(doc.cells) = 3
    /\ arrivals[DocTable] # cells[DocTable]
    /\ Len(doc.cells[1].paragraphs) = 2
    /\ doc.cells[1].paragraphs[1].id = 1

\* The cell a board entry of table t stands for.
CellAt(t, p) == cells[t][board[t][p[1]][p[2]] + 1]

\* C18: the index the board stores for a cell is the cell's position in
\* (top, left) order: a successful add_cell of a cell that sorts before an
\* inserted cell raises the index stored at that cell's coordinates by one,
\* and any other add_cell leaves the index as it was; in either case the
\* lookup cells[board[row][col]] gives the same cell before and after.
C18_IndexFollowsSort ==
    \A c \in AllCells : \A o \in { add_cell(DocTable, c) } :
        \A p \in Grid(DocTable) :
            board[DocTable][p[1]][p[2]] # _UNOCCUPIED_CELL =>
                /\ o.board[p[1]][p[2]] =
                      board[DocTable][p[1]][p[2]] +
                         (IF /\ o.err = "ok"
                             /\ \/ c[1].top < CellAt(DocTable, p)[1].top
                                \/ /\ c[1].top = CellAt(DocTable, p)[1].top
                                   /\ c[1].left < CellAt(DocTable, p)[1].left
                          THEN 1 ELSE 0)
                /\ o.cells[o.board[p[1]][p[2]] + 1] = CellAt(DocTable, p)

C18_LookupStable ==
    /\ []C18_IndexFollowsSort
    /\ [][\A p \in Grid(DocTable) :
             board[DocTable][p[1]][p[2]] # _UNOCCUPIED_CELL =>
                 /\ board'[DocTable][p[1]][p[2]] # _UNOCCUPIED_CELL
                 /\ cells'[DocTable][board'[DocTable][p[1]][p[2]] + 1]
                       = CellAt(DocTable, p)]_vars

\* The cell inserted first sorts second: its coordinates held index 0 and
\* hold index 1 since the last call, a successful add_cell.
C18_Witness ==
    /\ ret.op = "add_cell" /\ ret.err = "ok"
    /\ Len(arrivals[DocTable]) = 2
    /\ cells[DocTable] = << arrivals[DocTable][2], arrivals[DocTable][1] >>
    /\ arrivals[DocTable][1][1] # EmptyRect
    /\ arrivals[DocTable][2][1] # EmptyRect
    /\ board[DocTable][arrivals[DocTable][1][1].top]
                      [arrivals[DocTable][1][1].left] = 1

\* Some coordinate of table t is covered by two cells of its sequence.
DoublyCovered(t) ==
    \E p \in Grid(t) : \E i, j \in Positions(t) :
        /\ i < j
        /\ CoversAt(cells[t][i], p[1], p[2])
        /\ CoversAt(cells[t][j], p[1], p[2])

\* occupied_area of table t is more than the board has occupied entries.
AreaExceedsBoard(t) ==
    occupied_area[t] > Cardinality(
        { p \in Grid(t) : board[t][p[1]][p[2]] # _UNOCCUPIED_CELL })

\* C15: add_cell is not atomic.  As long as every add_cell call on a table
\* has run to completion before the next one began, no coordinate is covered
\* by two cells of the sequence and occupied_area does not exceed what the
\* board holds; with two calls interleaved at the steps check, append and
\* sort, rebuild, such a corrupted state is reachable (C15_Witness).
C15_SerialCallsSafe ==
    ~interleaved =>
        /\ ~DoublyCovered(RaceTable)
        /\ ~AreaExceedsBoard(RaceTable)

\* Both calls have returned, two committed cells of different rectangles
\* overlap, and occupied_area is more than the board holds.
C15_Witness ==
    /\ interleaved
    /\ \A th \in Threads : pc[th] = "idle"
    /\ ret.op = "add_cell" /\ ret.err = "ok"
    /\ Len(cells[RaceTable]) = 2
    /\ cells[RaceTable][1][1] # cells[RaceTable][2][1]
    /\ DoublyCovered(RaceTable)
    /\ AreaExceedsBoard(RaceTable)

====
